---- MODULE Spec2Model ----
(***************************************************************************)
(* Model of the CreateVmWizard component (ovirt-web-ui): the wizard state  *)
(* document (this.state), its handlers, the PatternFly Wizard navigation   *)
(* that drives them, and the correlation of the asynchronous create-VM     *)
(* result.                                                                 *)
(***************************************************************************)
EXTENDS Integers, Sequences, FiniteSets, TLC

\* ------------------------------------------------------------------------
\* Bounds of the model
\* ------------------------------------------------------------------------
MaxUpdated == 4   \* list edits are explored while the two updated counters add up
                  \* to less than this
MaxLen == 2       \* a create is explored while the list is shorter than this
MaxTokens == 2    \* submissions explored per run
MaxSessions == 2  \* wizard sessions explored: the host shows the wizard again
                  \* while wizardKey is at most this

\* ------------------------------------------------------------------------
\* JavaScript values
\* ------------------------------------------------------------------------
Undefined == "undefined"       \* JS undefined of a string-valued field
Null == 0                      \* correlationId: null (tokens are 1, 2, ...)
NoShadow == <<>>               \* JS undefined of the object-valued field underConstruction

\* obj[key], undefined when the key is absent
Get(obj, key) == IF key \in DOMAIN obj THEN obj[key] ELSE Undefined

\* { ...a, ...b } and the loop "for ([key, val] of Object.entries(b)) a[key] = val"
Merge(a, b) == [k \in (DOMAIN a) \cup (DOMAIN b) |-> IF k \in DOMAIN b THEN b[k] ELSE a[k]]

\* truthiness of an id (a string): '' and undefined are falsy
TruthyId(v) == v # "" /\ v # Undefined

\* faulty variant of FilterOutId: the filter keeps the items it should drop
RECURSIVE FilterOutId_Inverted(_, _)
FilterOutId_Inverted(list, id) ==
  IF list = <<>> THEN <<>>
  ELSE IF Head(list).id = id
       THEN <<Head(list)>> \o FilterOutId_Inverted(Tail(list), id)
       ELSE FilterOutId_Inverted(Tail(list), id)

\* Array.prototype.filter
RECURSIVE FilterOutId(_, _)
FilterOutId(list, id) ==
  IF list = <<>> THEN <<>>
  ELSE IF Head(list).id # id
       THEN <<Head(list)>> \o FilterOutId(Tail(list), id)
       ELSE FilterOutId(Tail(list), id)

\* the ids of the items of a list
Ids(list) == { list[i].id : i \in 1..Len(list) }

\* index of the first item with the id (Array.prototype.find), 0 when none
FindIndex(list, id) ==
  IF \E i \in 1..Len(list) : list[i].id = id
  THEN CHOOSE i \in 1..Len(list) :
         /\ list[i].id = id
         /\ \A j \in 1..(i - 1) : list[j].id # id
  ELSE 0

\* ------------------------------------------------------------------------
\* Catalog (this.props): clusters, templates, operating systems, storage
\* domains
\* ------------------------------------------------------------------------
EMPTY_VNIC_PROFILE_ID == "<empty-profile>"
BlankId == "blank"

TemplateNic(id, name, profile, interface) ==
  [id |-> id, name |-> name, vnicProfile |-> profile, interface |-> interface]

TemplateDisk(attachmentId, id, name, sd, sparse, bootable, size) ==
  [attachmentId |-> attachmentId, id |-> id, name |-> name, storageDomainId |-> sd,
   sparse |-> sparse, bootable |-> bootable, provisionedSize |-> size]

BlankTemplate ==
  [type |-> "server", os |-> "other", memory |-> 512 * 1024 * 1024,
   vCPUs |-> 2, cloudInit |-> FALSE, topology |-> [sockets |-> 2, cores |-> 1, threads |-> 1],
   nics |-> <<>>, disks |-> <<>>]

ServerTemplate ==
  [type |-> "server", os |-> "other", memory |-> 1024 * 1024 * 1024,
   vCPUs |-> 1, cloudInit |-> FALSE, topology |-> [sockets |-> 1, cores |-> 1, threads |-> 1],
   nics |-> << TemplateNic("n1", "nic1", "p1", "virtio"),
               TemplateNic("n2", "nic2", Undefined, "e1000") >>,
   disks |-> << TemplateDisk("a1", "d1", "disk1", "sd9", TRUE, TRUE, 10) >>]

DesktopTemplate ==
  [type |-> "desktop", os |-> "other", memory |-> 1024 * 1024 * 1024,
   vCPUs |-> 1, cloudInit |-> FALSE, topology |-> [sockets |-> 1, cores |-> 1, threads |-> 1],
   nics |-> << TemplateNic("n3", "nic3", "p1", "virtio") >>,
   disks |-> << TemplateDisk("a2", "d2", "disk2", "sd1", TRUE, TRUE, 10),
                TemplateDisk("a3", "d3", "disk3", "sd1", FALSE, FALSE, 20) >>]

\* a server template with a preallocated disk, on a storage domain of another
\* data center
StorageServerTemplate ==
  [type |-> "server", os |-> "other", memory |-> 1024 * 1024 * 1024,
   vCPUs |-> 1, cloudInit |-> FALSE, topology |-> [sockets |-> 1, cores |-> 1, threads |-> 1],
   nics |-> << TemplateNic("n4", "nic4", Undefined, "virtio") >>,
   disks |-> << TemplateDisk("a4", "d4", "disk4", "sd1", TRUE, TRUE, 10),
                TemplateDisk("a5", "d5", "disk5", "sd9", FALSE, FALSE, 20) >>]

Templates ==
  [blank |-> BlankTemplate, t1 |-> ServerTemplate, t2 |-> DesktopTemplate,
   t3 |-> StorageServerTemplate]

OperatingSystems == << [id |-> "0", name |-> "other"], [id |-> "1", name |-> "linux"] >>

StorageDomains == { [id |-> "sd1", dataCenterIds |-> {"dc1"}],
                    [id |-> "sd9", dataCenterIds |-> {"dc9"}] }

Cluster(id, dc) == [id |-> id, dataCenterId |-> dc]

\* the two catalogs explored: one cluster (pre-selected) or two clusters
Catalog(clusters) ==
  [clusters |-> clusters, templates |-> Templates, blankTemplateId |-> BlankId,
   operatingSystems |-> OperatingSystems, storageDomains |-> StorageDomains]

Catalogs == { Catalog(<< Cluster("c1", "dc1") >>),
              Catalog(<< Cluster("c1", "dc1"), Cluster("c2", "dc1") >>) }

\* a catalog whose blank template names an operating system type that the
\* operating-system catalog does not list
CatalogOfUnknownOs ==
  [Catalog(<< Cluster("c1", "dc1") >>) EXCEPT !.templates.blank.os = "rhel_9x64"]

\* a catalog without the blank template
CatalogWithoutBlank ==
  [Catalog(<< Cluster("c1", "dc1") >>) EXCEPT
     !.templates = [id \in {"t1", "t2"} |-> Templates[id]]]

\* the catalogs a wizard is constructed with
OpenCatalogs == Catalogs \cup { CatalogOfUnknownOs, CatalogWithoutBlank }

\* the catalog the wizard is explored with
WizardCatalogs == { Catalog(<< Cluster("c1", "dc1") >>) }

\* templates.get(id)
HasTemplate(p, id) == id \in DOMAIN p.templates

\* createClusterList({ clusters, locale })
createClusterList(p) == p.clusters

\* createStorageDomainList({ storageDomains, dataCenterId, ... })
createStorageDomainList(p, dataCenterId) ==
  { sd \in p.storageDomains : dataCenterId \in sd.dataCenterIds }

\* handleClusterIdChange(clusterId, {...}): the selection-driven changes
handleClusterIdChange(clusterId, p) ==
  LET i == CHOOSE i \in 1..Len(p.clusters) : p.clusters[i].id = clusterId
  IN [clusterId |-> clusterId,
      dataCenterId |-> p.clusters[i].dataCenterId,
      templateId |-> p.blankTemplateId]

\* ------------------------------------------------------------------------
\* The state document (this.state)
\* ------------------------------------------------------------------------
DEFAULT_STATE ==
  [activeStepIndex |-> 0,
   wizardKey |-> 1,
   steps |-> [basic |-> [name |-> "",
                         operatingSystemId |-> "0",
                         memory |-> 1024,
                         cpus |-> 1,
                         startOnCreation |-> FALSE,
                         initEnabled |-> FALSE,
                         optimizedFor |-> "desktop",
                         topology |-> [sockets |-> 1, cores |-> 1, threads |-> 1],
                         tpmEnabled |-> Undefined],
              network |-> [nics |-> <<>>, updated |-> 0],
              storage |-> [disks |-> <<>>, updated |-> 0]],
   wizardUpdated |-> FALSE,
   showCloseWizardDialog |-> FALSE,
   stepNavigation |-> [basic |-> [valid |-> FALSE, preventEnter |-> FALSE],
                       network |-> [valid |-> TRUE, preventEnter |-> FALSE],
                       storage |-> [valid |-> FALSE, preventEnter |-> FALSE],
                       review |-> [valid |-> TRUE, preventEnter |-> FALSE]],
   correlationId |-> Null]

\* operatingSystems.find(os => os.get('name') === osName)
FindOperatingSystem(p, osName) ==
  CHOOSE i \in 1..Len(p.operatingSystems) :
    /\ p.operatingSystems[i].name = osName
    /\ \A j \in 1..(i - 1) : p.operatingSystems[j].name # osName

\* operatingSystems.find(...) finds no entry: operatingSystem is undefined and
\* operatingSystem.get('id') raises a TypeError
getInitialStateRaises(p) ==
  /\ HasTemplate(p, p.blankTemplateId)
  /\ \A i \in 1..Len(p.operatingSystems) :
       p.operatingSystems[i].name # p.templates[p.blankTemplateId].os

\* the state getInitialState returns when it does not raise
getInitialState(p) ==
  LET clustersList == createClusterList(p)
      changes0 == IF Len(clustersList) = 1 THEN [clusterId |-> clustersList[1].id]
                  ELSE <<>>
      changes1 == Merge(changes0, [provisionSource |-> "template"])
      changes == IF "clusterId" \in DOMAIN changes1
                 THEN Merge(changes1, handleClusterIdChange(changes1.clusterId, p))
                 ELSE changes1
      blankTemplateValues ==
        IF HasTemplate(p, p.blankTemplateId)
        THEN LET blankTemplate == p.templates[p.blankTemplateId]
                 operatingSystem == p.operatingSystems[FindOperatingSystem(p, blankTemplate.os)]
             IN [operatingSystemId |-> operatingSystem.id,
                 memory |-> blankTemplate.memory \div (1024 * 1024),
                 cpus |-> blankTemplate.vCPUs,
                 initEnabled |-> blankTemplate.cloudInit,
                 topology |-> blankTemplate.topology]
        ELSE <<>>
  IN Merge(DEFAULT_STATE,
           [basicDefaultValues |-> Merge(DEFAULT_STATE.steps.basic, blankTemplateValues),
            steps |-> [DEFAULT_STATE.steps EXCEPT
                         !.basic = Merge(Merge(DEFAULT_STATE.steps.basic, blankTemplateValues),
                                         changes)]])

\* ------------------------------------------------------------------------
\* Handlers, as functions from the state document to the state document
\* ------------------------------------------------------------------------
\* faulty variant of handleBasicOnUpdate: the reset forgets the storage counter
handleBasicOnUpdate_ResetNetworkOnly(s, partialUpdate) ==
  LET basic == Merge(s.steps.basic, partialUpdate)
      reset == \/ Get(basic, "provisionSource") # Get(partialUpdate, "provisionSource")
               \/ Get(basic, "templateId") # Get(partialUpdate, "templateId")
  IN [s EXCEPT !.steps.basic = basic,
               !.wizardUpdated = TRUE,
               !.steps.network.updated = IF reset THEN 0 ELSE @]

handleBasicOnUpdate(s, partialUpdate) ==
  LET basic == Merge(s.steps.basic, partialUpdate)
      provisionSource == Get(basic, "provisionSource")
      templateId == Get(basic, "templateId")
      provisionSource_ == Get(partialUpdate, "provisionSource")
      templateId_ == Get(partialUpdate, "templateId")
      reset == provisionSource # provisionSource_ \/ templateId # templateId_
  IN [s EXCEPT !.steps.basic = basic,
               !.wizardUpdated = TRUE,
               !.steps.network.updated = IF reset THEN 0 ELSE @,
               !.steps.storage.updated = IF reset THEN 0 ELSE @]

\* template.get('nics', List()).map(...)
RECURSIVE MapSeq(_, _)
MapSeq(Op(_), list) ==
  IF list = <<>> THEN <<>> ELSE <<Op(Head(list))>> \o MapSeq(Op, Tail(list))

\* faulty variant of DeriveNic: a nic without a profile gets no profile id
DeriveNic_NoSentinel(nic) ==
  [id |-> nic.id,
   name |-> nic.name,
   vnicProfileId |-> nic.vnicProfile,
   deviceType |-> nic.interface,
   isFromTemplate |-> TRUE]

DeriveNic(nic) ==
  [id |-> nic.id,
   name |-> nic.name,
   vnicProfileId |-> IF TruthyId(nic.vnicProfile) THEN nic.vnicProfile ELSE EMPTY_VNIC_PROFILE_ID,
   deviceType |-> nic.interface,
   isFromTemplate |-> TRUE]

\* faulty variant of DiskType: the type of the template is not looked at
DiskType_IgnoresTemplateType(templateType, optimizedFor, sparse) ==
  IF optimizedFor = "desktop"
  THEN "thin"
  ELSE IF sparse THEN "thin" ELSE "pre"

DiskType(templateType, optimizedFor, sparse) ==
  IF templateType = "desktop" \/ optimizedFor = "desktop"
  THEN "thin"
  ELSE IF sparse THEN "thin" ELSE "pre"

\* faulty variant of DeriveDisk: the shadow copy keeps the storage domain
DeriveDisk_ShadowKeepsDomain(disk, template, optimizedFor, dataCenterStorageDomainsList) ==
  LET canUserUseStorageDomain ==
        \E sd \in dataCenterStorageDomainsList : sd.id = disk.storageDomainId
      draft == [id |-> disk.attachmentId,
                name |-> disk.name,
                diskId |-> disk.id,
                storageDomainId |-> disk.storageDomainId,
                canUserUseStorageDomain |-> canUserUseStorageDomain,
                bootable |-> disk.bootable,
                diskType |-> DiskType(template.type, optimizedFor, disk.sparse),
                size |-> disk.provisionedSize,
                isFromTemplate |-> TRUE]
  IN IF canUserUseStorageDomain
     THEN draft
     ELSE Merge(draft, [underConstruction |-> draft])

DeriveDisk(disk, template, optimizedFor, dataCenterStorageDomainsList) ==
  LET canUserUseStorageDomain ==
        \E sd \in dataCenterStorageDomainsList : sd.id = disk.storageDomainId
      draft == [id |-> disk.attachmentId,
                name |-> disk.name,
                diskId |-> disk.id,
                storageDomainId |-> disk.storageDomainId,
                canUserUseStorageDomain |-> canUserUseStorageDomain,
                bootable |-> disk.bootable,
                diskType |-> DiskType(template.type, optimizedFor, disk.sparse),
                size |-> disk.provisionedSize,
                isFromTemplate |-> TRUE]
  IN IF canUserUseStorageDomain
     THEN draft
     ELSE Merge(draft, [underConstruction |-> [draft EXCEPT !.storageDomainId = "_"]])

\* ({ underConstruction }) => underConstruction
HasUnderConstruction(disk) ==
  "underConstruction" \in DOMAIN disk /\ disk.underConstruction # NoShadow

AnyUnderConstruction(disks) == \E i \in 1..Len(disks) : HasUnderConstruction(disks[i])

\* faulty variant of handleBasicOnExit: without a template the lists are kept
\* instead of emptied
handleBasicOnExit_NoTemplateKeeps(s, p) ==
  LET resetNics == s.steps.network.updated = 0
      resetDisks == s.steps.storage.updated = 0
      templateId == Get(s.steps.basic, "templateId")
      hasTemplate == HasTemplate(p, templateId)
      dataCenterStorageDomainsList ==
        createStorageDomainList(p, Get(s.steps.basic, "dataCenterId"))
      DeriveDiskOf(disk) == DeriveDisk(disk, p.templates[templateId],
                                       s.steps.basic.optimizedFor,
                                       dataCenterStorageDomainsList)
      network == IF resetNics
                 THEN [updated |-> s.steps.network.updated + 1,
                       nics |-> IF ~hasTemplate THEN s.steps.network.nics
                                ELSE MapSeq(DeriveNic, p.templates[templateId].nics)]
                 ELSE s.steps.network
      storage == IF resetDisks
                 THEN [updated |-> s.steps.storage.updated + 1,
                       disks |-> IF ~hasTemplate THEN s.steps.storage.disks
                                 ELSE MapSeq(DeriveDiskOf, p.templates[templateId].disks)]
                 ELSE s.steps.storage
  IN IF resetNics \/ resetDisks
     THEN [s EXCEPT !.steps.network = network,
                    !.steps.storage = storage,
                    !.stepNavigation.storage.valid =
                       IF resetDisks THEN ~AnyUnderConstruction(storage.disks) ELSE @]
     ELSE s

\* faulty variant of handleBasicOnExit: stepNavigation.storage.valid is left as
\* it was when the disks are derived
handleBasicOnExit_ValidLeft(s, p) ==
  LET resetNics == s.steps.network.updated = 0
      resetDisks == s.steps.storage.updated = 0
      templateId == Get(s.steps.basic, "templateId")
      hasTemplate == HasTemplate(p, templateId)
      dataCenterStorageDomainsList ==
        createStorageDomainList(p, Get(s.steps.basic, "dataCenterId"))
      DeriveDiskOf(disk) == DeriveDisk(disk, p.templates[templateId],
                                       s.steps.basic.optimizedFor,
                                       dataCenterStorageDomainsList)
      network == IF resetNics
                 THEN [updated |-> s.steps.network.updated + 1,
                       nics |-> IF ~hasTemplate THEN <<>>
                                ELSE MapSeq(DeriveNic, p.templates[templateId].nics)]
                 ELSE s.steps.network
      storage == IF resetDisks
                 THEN [updated |-> s.steps.storage.updated + 1,
                       disks |-> IF ~hasTemplate THEN <<>>
                                 ELSE MapSeq(DeriveDiskOf, p.templates[templateId].disks)]
                 ELSE s.steps.storage
  IN IF resetNics \/ resetDisks
     THEN [s EXCEPT !.steps.network = network, !.steps.storage = storage]
     ELSE s

\* faulty variant of handleBasicOnExit: the nics are derived whatever their counter is
handleBasicOnExit_AlwaysDerive(s, p) ==
  LET templateId == Get(s.steps.basic, "templateId")
  IN [s EXCEPT !.steps.network =
                 [updated |-> s.steps.network.updated + 1,
                  nics |-> IF ~HasTemplate(p, templateId) THEN <<>>
                           ELSE MapSeq(DeriveNic, p.templates[templateId].nics)]]

handleBasicOnExit(s, p) ==
  LET resetNics == s.steps.network.updated = 0
      resetDisks == s.steps.storage.updated = 0
      templateId == Get(s.steps.basic, "templateId")
      hasTemplate == HasTemplate(p, templateId)
      dataCenterStorageDomainsList ==
        createStorageDomainList(p, Get(s.steps.basic, "dataCenterId"))
      DeriveDiskOf(disk) == DeriveDisk(disk, p.templates[templateId],
                                       s.steps.basic.optimizedFor,
                                       dataCenterStorageDomainsList)
      network == IF resetNics
                 THEN [updated |-> s.steps.network.updated + 1,
                       nics |-> IF ~hasTemplate THEN <<>>
                                ELSE MapSeq(DeriveNic, p.templates[templateId].nics)]
                 ELSE s.steps.network
      storage == IF resetDisks
                 THEN [updated |-> s.steps.storage.updated + 1,
                       disks |-> IF ~hasTemplate THEN <<>>
                                 ELSE MapSeq(DeriveDiskOf, p.templates[templateId].disks)]
                 ELSE s.steps.storage
  IN IF resetNics \/ resetDisks
     THEN [s EXCEPT !.steps.network = network,
                    !.steps.storage = storage,
                    !.stepNavigation.storage.valid =
                       IF resetDisks THEN ~AnyUnderConstruction(storage.disks) ELSE @]
     ELSE s

\* faulty variant of handleListOnUpdate: the counter only counts the calls that
\* changed the list
handleListOnUpdate_CountsOnlyChanges(s, stepName, listName, payload) ==
  LET remove == "remove" \in DOMAIN payload /\ TruthyId(payload.remove)
      update == "update" \in DOMAIN payload
      create == "create" \in DOMAIN payload
      list == s.steps[stepName][listName]
      removed == IF remove THEN FilterOutId(list, payload.remove) ELSE list
      toUpdate == IF update THEN FindIndex(removed, Get(payload.update, "id")) ELSE 0
      updated == IF toUpdate # 0
                 THEN [removed EXCEPT ![toUpdate] = Merge(@, payload.update)]
                 ELSE removed
      created == IF create THEN Append(updated, payload.create) ELSE updated
  IN IF ~remove /\ ~update /\ ~create
     THEN s
     ELSE [s EXCEPT !.wizardUpdated = TRUE,
                    !.steps[stepName][listName] = created,
                    !.steps[stepName].updated = IF created = list THEN @ ELSE @ + 1]

\* faulty variant of handleListOnUpdate: an update whose id matches no item
\* adds the update as a new item
handleListOnUpdate_UnknownUpdateAppends(s, stepName, listName, payload) ==
  LET remove == "remove" \in DOMAIN payload /\ TruthyId(payload.remove)
      update == "update" \in DOMAIN payload
      create == "create" \in DOMAIN payload
      list == s.steps[stepName][listName]
      removed == IF remove THEN FilterOutId(list, payload.remove) ELSE list
      toUpdate == IF update THEN FindIndex(removed, Get(payload.update, "id")) ELSE 0
      updated == IF toUpdate # 0
                 THEN [removed EXCEPT ![toUpdate] = Merge(@, payload.update)]
                 ELSE IF update THEN Append(removed, payload.update) ELSE removed
      created == IF create THEN Append(updated, payload.create) ELSE updated
  IN IF ~remove /\ ~update /\ ~create
     THEN s
     ELSE [s EXCEPT !.wizardUpdated = TRUE,
                    !.steps[stepName][listName] = created,
                    !.steps[stepName].updated = @ + 1]

\* faulty variant of handleListOnUpdate: an update adds the merged item instead of
\* replacing the item it found
handleListOnUpdate_UpdateAppends(s, stepName, listName, payload) ==
  LET list == s.steps[stepName][listName]
      toUpdate == IF "update" \in DOMAIN payload
                  THEN FindIndex(list, Get(payload.update, "id")) ELSE 0
  IN IF toUpdate # 0
     THEN [s EXCEPT !.wizardUpdated = TRUE,
                    !.steps[stepName][listName] =
                       Append(list, Merge(list[toUpdate], payload.update)),
                    !.steps[stepName].updated = @ + 1]
     ELSE s

handleListOnUpdate(s, stepName, listName, payload) ==
  LET remove == "remove" \in DOMAIN payload /\ TruthyId(payload.remove)
      update == "update" \in DOMAIN payload
      create == "create" \in DOMAIN payload
      list == s.steps[stepName][listName]
      removed == IF remove THEN FilterOutId(list, payload.remove) ELSE list
      toUpdate == IF update THEN FindIndex(removed, Get(payload.update, "id")) ELSE 0
      updated == IF toUpdate # 0
                 THEN [removed EXCEPT ![toUpdate] = Merge(@, payload.update)]
                 ELSE removed
      created == IF create THEN Append(updated, payload.create) ELSE updated
  IN IF ~remove /\ ~update /\ ~create
     THEN s
     ELSE [s EXCEPT !.wizardUpdated = TRUE,
                    !.steps[stepName][listName] = created,
                    !.steps[stepName].updated = @ + 1]

\* ------------------------------------------------------------------------
\* Variables
\* ------------------------------------------------------------------------
VARIABLES
  props,          \* this.props: the catalog the wizard was opened with
  state,          \* this.state: the wizard state document
  currentStep,    \* internal state of the PatternFly <Wizard>: the step shown
  show,           \* props.show: the host shows the wizard
  tokenSeq,       \* generateUnique: number of tokens generated so far
  pc,             \* position of the component: "constructor" before this.state is
                  \* set, "TypeError" when the constructor raised, "idle" between
                  \* events, "onCreate" and "flush" inside handleCreateVm
  pending,        \* the state update queued by setState in handleCreateVm
  inflight,       \* create requests handed to the dispatcher, by token
  actionResults,  \* props.actionResults: token -> result of the create request
  userMessages,   \* props.userMessages: the records of the messages to the user
  navigatedTo,    \* last vm id handed to props.navigateToVm
  lastOp,         \* history: name of the last handler applied to the state
  pinned,         \* history: per step, the list as last edited by the user
  stamped,        \* history: tokens ever recorded in state.correlationId
  roundTrip       \* history: the last create, and the remove that followed it

vars == << props, state, currentStep, show, tokenSeq, pc, pending, inflight,
           actionResults, userMessages, navigatedTo, lastOp, pinned, stamped, roundTrip >>

StepIds == << "basic", "network", "storage", "review", "finish" >>
StepIndex(id) == CHOOSE i \in 1..Len(StepIds) : StepIds[i] = id
ListName == [network |-> "nics", storage |-> "disks"]

NoPending == [correlationId |-> Null, step |-> "basic"]
NoPinned == [network |-> <<>>, storage |-> <<>>]
NoRoundTrip == [phase |-> "none"]

\* ------------------------------------------------------------------------
\* Inputs explored
\* ------------------------------------------------------------------------
\* partialUpdate objects the Basic step reports
PartialUpdates ==
  { [name |-> "vm"],
    [templateId |-> "t1"],
    [provisionSource |-> "iso", templateId |-> Undefined],
    [provisionSource |-> "template", templateId |-> BlankId],
    [provisionSource |-> "template", templateId |-> "t1"] }

UserNic(id) ==
  [id |-> id, name |-> "nic", vnicProfileId |-> "p1", deviceType |-> "virtio",
   isFromTemplate |-> FALSE]

UserDisk(id) ==
  [id |-> id, name |-> "disk", diskId |-> Undefined, storageDomainId |-> "sd1",
   canUserUseStorageDomain |-> TRUE, bootable |-> FALSE, diskType |-> "thin",
   size |-> 5, isFromTemplate |-> FALSE]

\* list operations the Networking step reports (without the valid field)
NicUpdates ==
  { <<>>,
    [remove |-> "n1"],
    [remove |-> ""],
    [update |-> [id |-> "n2", vnicProfileId |-> "p2"]],
    [create |-> UserNic("u1")],
    [create |-> UserNic("n2")],
    [create |-> UserNic("")],
    [remove |-> "u1"],
    [remove |-> "n2"] }

\* the Storage step reports that the user picked a storage domain for a disk
ResolveDisk(id) ==
  [id |-> id, storageDomainId |-> "sd1", canUserUseStorageDomain |-> TRUE,
   underConstruction |-> NoShadow]

\* list operations the Storage step reports (without the valid field)
DiskUpdates ==
  { <<>>,
    [update |-> ResolveDisk("a1")],
    [create |-> UserDisk("u1")],
    [create |-> UserDisk("a1")],
    [remove |-> "u1"],
    [remove |-> "a1"] }

ListUpdates == [network |-> NicUpdates, storage |-> DiskUpdates]

\* the few partialUpdate objects explored together with submission and closing
FewPartialUpdates ==
  { [name |-> "vm"],
    [templateId |-> "t1"],
    [provisionSource |-> "template", templateId |-> BlankId] }

\* the few list operations explored together with submission and closing
FewListUpdates ==
  [network |-> { <<>>, [remove |-> "n1"] },
   storage |-> { <<>>, [update |-> ResolveDisk("a1")] }]

\* partialUpdate objects of the Basic step that change what is derived: the
\* template, the provision source, what the vm is optimized for
DerivePartialUpdates ==
  { [templateId |-> "t1"],
    [templateId |-> "t2"],
    [templateId |-> "t3"],
    [provisionSource |-> "iso", templateId |-> Undefined],
    [provisionSource |-> "template", templateId |-> BlankId],
    [optimizedFor |-> "desktop"],
    [optimizedFor |-> "server"],
    [optimizedFor |-> "high-performance"] }

\* the valid field of an onUpdate payload: absent, true or false
ValidFields == { <<>>, [valid |-> TRUE], [valid |-> FALSE] }

\* ------------------------------------------------------------------------
\* The steps of createSteps: onUpdate callbacks, enableNext, canJumpTo
\* ------------------------------------------------------------------------
\* onUpdate of the Basic step: ({ valid = false, partialUpdate = {} }) => ...
basicOnUpdate(s, payload) ==
  LET valid == IF "valid" \in DOMAIN payload THEN payload.valid ELSE FALSE
      partialUpdate == IF "partialUpdate" \in DOMAIN payload THEN payload.partialUpdate
                       ELSE <<>>
  IN [handleBasicOnUpdate(s, partialUpdate) EXCEPT !.stepNavigation.basic.valid = valid]

\* the payload without its valid field: ({ valid = true, ...updatePayload })
UpdatePayload(payload) == [k \in (DOMAIN payload) \ {"valid"} |-> payload[k]]

\* onUpdate of the Networking and the Storage step
listOnUpdate(s, stepName, payload) ==
  LET valid == IF "valid" \in DOMAIN payload THEN payload.valid ELSE TRUE
  IN [handleListOnUpdate(s, stepName, ListName[stepName], UpdatePayload(payload))
        EXCEPT !.stepNavigation[stepName].valid = valid]

enableNext(s, step) ==
  CASE step = "basic" -> s.stepNavigation.basic.valid
    [] step = "network" -> s.stepNavigation.network.valid
    [] step = "storage" -> s.stepNavigation.storage.valid
    [] step = "review" -> TRUE
    [] OTHER -> FALSE

canJumpTo(s, step) ==
  CASE step = "basic" -> TRUE
    [] step = "network" -> s.stepNavigation.basic.valid
    [] step = "storage" -> s.stepNavigation.basic.valid /\ s.stepNavigation.network.valid
    [] step = "review" -> /\ s.stepNavigation.basic.valid
                          /\ s.stepNavigation.network.valid
                          /\ s.stepNavigation.storage.valid
    [] OTHER -> FALSE

\* faulty variant of hideAndResetState: the wizardKey is not renewed
hideAndResetState_KeepsKey(s, p) == [getInitialState(p) EXCEPT !.wizardKey = s.wizardKey]

\* hideAndResetState: { ...getInitialState(this.props), wizardKey: wizardKey + 1 }
hideAndResetState(s, p) == [getInitialState(p) EXCEPT !.wizardKey = s.wizardKey + 1]

\* faulty variant of stampCorrelationId: the token is not recorded
stampCorrelationId_Dropped(s, correlationId) == s

\* the setState of handleCreateVm: draft.correlationId = correlationId
stampCorrelationId(s, correlationId) == [s EXCEPT !.correlationId = correlationId]

\* ------------------------------------------------------------------------
\* The finished step: the progress of the create request
\* ------------------------------------------------------------------------
\* a record of userMessages that no create request of the wizard caused
OtherRecord == [message |-> "session expired"]

\* the record the dispatcher stores when the create request with the token fails
FailureRecord(correlationId) ==
  [message |-> "vm not created: " \o ToString(correlationId),
   failedAction |-> [type |-> "CREATE_VM", meta |-> [correlationId |-> correlationId]]]

\* record.getIn(['failedAction', 'meta', 'correlationId']) === correlationId
CorrelatesWith(record, correlationId) ==
  /\ "failedAction" \in DOMAIN record
  /\ "meta" \in DOMAIN record.failedAction
  /\ "correlationId" \in DOMAIN record.failedAction.meta
  /\ record.failedAction.meta.correlationId = correlationId

\* buildMessageFromRecord(record.toJS(), msg): the text shown for the record
buildMessageFromRecord(record) == record.message

\* userMessages.get('records').filter(...).map(...)
RECURSIVE correlatedMessages(_, _)
correlatedMessages(records, correlationId) ==
  IF records = <<>> THEN <<>>
  ELSE IF CorrelatesWith(Head(records), correlationId)
       THEN << buildMessageFromRecord(Head(records)) >>
              \o correlatedMessages(Tail(records), correlationId)
       ELSE correlatedMessages(Tail(records), correlationId)

\* faulty variant of progress: a create request without a result is not in progress
progress_NeverInProgress(s, results, records) ==
  [inProgress |-> FALSE,
   result |-> IF s.correlationId \notin DOMAIN results THEN Undefined
              ELSE IF results[s.correlationId] THEN "success" ELSE "error",
   messages |-> IF s.correlationId = Null THEN << Null >>
                ELSE << correlatedMessages(records, s.correlationId) >>]

\* faulty variant of progress: the messages are not filtered by the token
progress_AllMessages(s, results, records) ==
  LET inProgress == s.correlationId # Null /\ s.correlationId \notin DOMAIN results
  IN [inProgress |-> inProgress,
      result |-> IF s.correlationId = Null \/ inProgress THEN Undefined
                 ELSE IF results[s.correlationId] THEN "success" ELSE "error",
      messages |-> IF s.correlationId = Null THEN << Null >>
                   ELSE << [i \in 1..Len(records) |-> buildMessageFromRecord(records[i])] >>]

\* the progress prop of <FinishedStep>; messages is boxed in a 1-tuple since it
\* is null or a list: << Null >> or << list >>
progress(s, results, records) ==
  LET correlationId == s.correlationId
      inProgress == correlationId # Null /\ correlationId \notin DOMAIN results
      correlatedResult == IF correlationId = Null \/ inProgress THEN Undefined
                          ELSE IF results[correlationId] THEN "success" ELSE "error"
  IN [inProgress |-> inProgress,
      result |-> correlatedResult,
      messages |-> IF correlationId = Null THEN << Null >>
                   ELSE << correlatedMessages(records, correlationId) >>]

\* ------------------------------------------------------------------------
\* Actions on the program's variables
\* ------------------------------------------------------------------------
program == << props, state, currentStep, show, tokenSeq, pc, pending, inflight,
              actionResults, userMessages, navigatedTo >>

\* constructor (props): this.state = getInitialState(props)
Constructor ==
  /\ pc = "constructor"
  /\ IF getInitialStateRaises(props)
     THEN pc' = "TypeError" /\ UNCHANGED state
     ELSE pc' = "idle" /\ state' = getInitialState(props)
  /\ UNCHANGED << props, currentStep, show, tokenSeq, pending, inflight, actionResults,
                  navigatedTo, userMessages >>

\* the <Wizard> is rendered and no event handler is running
WizardShown == pc = "idle" /\ show /\ ~state.showCloseWizardDialog

\* the Basic step reports an update
BasicOnUpdate(payload) ==
  /\ WizardShown
  /\ currentStep = "basic"
  /\ state' = basicOnUpdate(state, payload)
  /\ UNCHANGED << props, currentStep, show, tokenSeq, pc, pending, inflight,
                  actionResults, navigatedTo, userMessages >>

\* the Networking or the Storage step reports an update
ListOnUpdate(stepName, payload) ==
  /\ WizardShown
  /\ currentStep = stepName
  /\ state.steps.network.updated + state.steps.storage.updated < MaxUpdated
  /\ "create" \in DOMAIN payload => Len(state.steps[stepName][ListName[stepName]]) < MaxLen
  /\ state' = listOnUpdate(state, stepName, payload)
  /\ UNCHANGED << props, currentStep, show, tokenSeq, pc, pending, inflight,
                  actionResults, navigatedTo, userMessages >>

\* The step shown changes from currentStep to target; onMove runs the onExit
\* of the step left: handleBasicOnExit for basic, handleCreateVm for review.
\* handleCreateVm generates the token and queues its setState here; the
\* dispatch and the application of the queued update are the next two steps
\* of the same event handler.
Move(target) ==
  /\ CASE currentStep = "basic" ->
            /\ state' = handleBasicOnExit(state, props)
            /\ currentStep' = target
            /\ UNCHANGED << tokenSeq, pc, pending >>
       [] currentStep = "review" ->
            /\ tokenSeq < MaxTokens
            /\ tokenSeq' = tokenSeq + 1
            /\ pending' = [correlationId |-> tokenSeq + 1, step |-> target]
            /\ pc' = "onCreate"
            /\ UNCHANGED << state, currentStep >>
       [] OTHER ->
            /\ currentStep' = target
            /\ UNCHANGED << state, tokenSeq, pc, pending >>
  /\ UNCHANGED << props, show, inflight, actionResults, navigatedTo, userMessages >>

\* the Next button of the wizard footer (onNext)
OnNext ==
  /\ WizardShown
  /\ currentStep # "finish"
  /\ enableNext(state, currentStep)
  /\ Move(StepIds[StepIndex(currentStep) + 1])

\* a click on a step of the wizard navigation (onGoToStep)
OnGoToStep(target) ==
  /\ WizardShown
  /\ currentStep # "finish"
  /\ target # currentStep
  /\ canJumpTo(state, target)
  /\ Move(target)

\* the Back button of the wizard footer: no onBack is passed, no onExit runs
OnBack ==
  /\ WizardShown
  /\ currentStep \in {"network", "storage", "review"}
  /\ currentStep' = StepIds[StepIndex(currentStep) - 1]
  /\ UNCHANGED << props, state, show, tokenSeq, pc, pending, inflight, actionResults,
                  navigatedTo, userMessages >>

\* handleCreateVm, second statement: this.props.onCreate(basic, nics, disks, correlationId)
OnCreate ==
  /\ pc = "onCreate"
  /\ inflight' = inflight \cup {pending.correlationId}
  /\ pc' = "flush"
  /\ UNCHANGED << props, state, currentStep, show, tokenSeq, pending, actionResults,
                  navigatedTo, userMessages >>

\* the event handler returns: React applies the queued state updates
FlushSetState ==
  /\ pc = "flush"
  /\ state' = stampCorrelationId(state, pending.correlationId)
  /\ currentStep' = pending.step
  /\ pending' = NoPending
  /\ pc' = "idle"
  /\ UNCHANGED << props, show, tokenSeq, inflight, actionResults, navigatedTo, userMessages >>

\* the dispatcher stores the result of a create request (a later task)
ResultArrives(t, r) ==
  /\ pc = "idle"
  /\ t \in inflight
  /\ actionResults' = [k \in (DOMAIN actionResults) \cup {t} |->
                         IF k = t THEN r ELSE actionResults[k]]
  /\ userMessages' = IF r THEN userMessages ELSE Append(userMessages, FailureRecord(t))
  /\ inflight' = inflight \ {t}
  /\ UNCHANGED << props, state, currentStep, show, tokenSeq, pc, pending, navigatedTo >>

\* the state is replaced by a fresh one, the wizard is hidden (onHide) and
\* the new wizardKey re-creates the <Wizard>
ResetAndHide ==
  /\ state' = hideAndResetState(state, props)
  /\ currentStep' = "basic"
  /\ show' = FALSE

\* faulty variant of ShowCloseWizardDialog: the close resets the state without
\* asking
ShowCloseWizardDialog_AlwaysResets ==
  /\ WizardShown
  /\ ResetAndHide
  /\ UNCHANGED << props, tokenSeq, pc, pending, inflight, actionResults, navigatedTo,
                  userMessages >>

\* onClose of the wizard: showCloseWizardDialog; the <Wizard> is not rendered
\* while the dialog is shown
ShowCloseWizardDialog ==
  /\ WizardShown
  /\ IF state.wizardUpdated /\ state.correlationId = Null
     THEN /\ state' = [state EXCEPT !.showCloseWizardDialog = TRUE]
          /\ currentStep' = "basic"
          /\ UNCHANGED show
     ELSE ResetAndHide
  /\ UNCHANGED << props, tokenSeq, pc, pending, inflight, actionResults, navigatedTo, userMessages >>

\* onYes of the confirmation dialog
ConfirmYes ==
  /\ pc = "idle"
  /\ state.showCloseWizardDialog
  /\ ResetAndHide
  /\ UNCHANGED << props, tokenSeq, pc, pending, inflight, actionResults, navigatedTo, userMessages >>

\* onNo of the confirmation dialog: hideCloseWizardDialog
HideCloseWizardDialog ==
  /\ pc = "idle"
  /\ state.showCloseWizardDialog
  /\ state' = [state EXCEPT !.showCloseWizardDialog = FALSE]
  /\ UNCHANGED << props, currentStep, show, tokenSeq, pc, pending, inflight,
                  actionResults, navigatedTo, userMessages >>

\* the finished step closes the wizard: hideAndResetState
HideAndResetState ==
  /\ WizardShown
  /\ currentStep = "finish"
  /\ ResetAndHide
  /\ UNCHANGED << props, tokenSeq, pc, pending, inflight, actionResults, navigatedTo, userMessages >>

\* the finished step opens the created vm: hideAndNavigate
HideAndNavigate ==
  /\ WizardShown
  /\ currentStep = "finish"
  /\ state.correlationId \in DOMAIN actionResults
  /\ navigatedTo' = << actionResults[state.correlationId] >>
  /\ ResetAndHide
  /\ UNCHANGED << props, tokenSeq, pc, pending, inflight, actionResults, userMessages >>

\* the host shows the wizard again
OpenWizard ==
  /\ pc = "idle"
  /\ ~show
  /\ state.wizardKey <= MaxSessions
  /\ show' = TRUE
  /\ UNCHANGED << props, state, currentStep, tokenSeq, pc, pending, inflight,
                  actionResults, navigatedTo, userMessages >>

\* ------------------------------------------------------------------------
\* History variables
\* ------------------------------------------------------------------------
\* tokens recorded in state.correlationId so far
Stamp ==
  stamped' = stamped \cup (IF state'.correlationId # Null THEN {state'.correlationId}
                           ELSE {})

NoHistory == Stamp /\ UNCHANGED << lastOp, pinned, roundTrip >>

\* provisionSource or templateId has another value in s2 than in s
BasicChanged(s, s2) ==
  \/ Get(s.steps.basic, "provisionSource") # Get(s2.steps.basic, "provisionSource")
  \/ Get(s.steps.basic, "templateId") # Get(s2.steps.basic, "templateId")

\* handleBasicOnUpdate ran: a change of provisionSource or templateId ends the
\* protection of the edited lists
BasicHistory ==
  /\ Stamp
  /\ lastOp' = "handleBasicOnUpdate"
  /\ pinned' = IF BasicChanged(state, state') THEN NoPinned ELSE pinned
  /\ roundTrip' = NoRoundTrip

\* handleListOnUpdate ran on the step with the operations up
ListHistory(stepName, up) ==
  LET list == state.steps[stepName][ListName[stepName]]
      called == (DOMAIN up) \cap {"remove", "update", "create"} # {}
  IN /\ Stamp
     /\ lastOp' = "handleListOnUpdate"
     /\ pinned' = IF called
                  THEN [pinned EXCEPT ![stepName] = << state'.steps[stepName][ListName[stepName]] >>]
                  ELSE pinned
     /\ roundTrip' =
          IF DOMAIN up = {"create"}
          THEN [phase |-> "created", step |-> stepName, item |-> up.create,
                before |-> list, updated |-> state.steps[stepName].updated]
          ELSE IF /\ DOMAIN up = {"remove"}
                  /\ roundTrip.phase = "created"
                  /\ roundTrip.step = stepName
                  /\ roundTrip.item.id = up.remove
               THEN [roundTrip EXCEPT !.phase = "removed"]
               ELSE NoRoundTrip

\* a step was left: handleBasicOnExit ran if it was the basic step
MoveHistory ==
  /\ Stamp
  /\ lastOp' = IF currentStep = "basic" THEN "handleBasicOnExit" ELSE "onMove"
  /\ roundTrip' = NoRoundTrip
  /\ UNCHANGED pinned

\* ------------------------------------------------------------------------
\* The wizard: navigation, editing, submission, closing
\* ------------------------------------------------------------------------
Init ==
  /\ props \in WizardCatalogs
  /\ state = getInitialState(props)
  /\ currentStep = "basic"
  /\ show = TRUE
  /\ tokenSeq = 0
  /\ pc = "idle"
  /\ pending = NoPending
  /\ inflight = {}
  /\ actionResults = <<>>
  /\ userMessages = << OtherRecord >>
  /\ navigatedTo = <<>>
  /\ lastOp = "getInitialState"
  /\ pinned = NoPinned
  /\ stamped = {}
  /\ roundTrip = NoRoundTrip

Next ==
  \/ \E v \in ValidFields, pu \in FewPartialUpdates :
       BasicOnUpdate(Merge(v, [partialUpdate |-> pu])) /\ NoHistory
  \/ \E v \in ValidFields, up \in FewListUpdates.network :
       ListOnUpdate("network", Merge(v, up)) /\ NoHistory
  \/ \E v \in ValidFields, up \in FewListUpdates.storage :
       ListOnUpdate("storage", Merge(v, up)) /\ NoHistory
  \/ OnNext /\ NoHistory
  \/ \E target \in {"basic", "network", "storage", "review"} :
       OnGoToStep(target) /\ NoHistory
  \/ OnBack /\ NoHistory
  \/ OnCreate /\ NoHistory
  \/ FlushSetState /\ NoHistory
  \/ \E t \in inflight, r \in BOOLEAN : ResultArrives(t, r) /\ NoHistory
  \/ ShowCloseWizardDialog /\ NoHistory
  \/ ConfirmYes /\ NoHistory
  \/ HideCloseWizardDialog /\ NoHistory
  \/ HideAndResetState /\ NoHistory
  \/ HideAndNavigate /\ NoHistory
  \/ OpenWizard /\ NoHistory

Spec == Init /\ [][Next]_vars

\* ------------------------------------------------------------------------
\* The editing session: the steps before review, with the history of the
\* handlers that ran
\* ------------------------------------------------------------------------
NextEdit ==
  \/ \E pu \in PartialUpdates :
       BasicOnUpdate([valid |-> TRUE, partialUpdate |-> pu]) /\ BasicHistory
  \/ \E up \in ListUpdates.network :
       ListOnUpdate("network", up) /\ ListHistory("network", up)
  \/ \E up \in ListUpdates.storage :
       ListOnUpdate("storage", up) /\ ListHistory("storage", up)
  \/ currentStep \in {"basic", "network"} /\ OnNext /\ MoveHistory
  \/ \E target \in {"basic", "network", "storage"} :
       OnGoToStep(target) /\ MoveHistory
  \/ OnBack /\ MoveHistory

SpecEdit == Init /\ [][NextEdit]_vars

\* ------------------------------------------------------------------------
\* The derivation of nics and disks: the basic step with either catalog, every
\* template and every optimizedFor, left and entered again
\* ------------------------------------------------------------------------
InitDerive ==
  /\ props \in Catalogs
  /\ state = getInitialState(props)
  /\ currentStep = "basic"
  /\ show = TRUE
  /\ tokenSeq = 0
  /\ pc = "idle"
  /\ pending = NoPending
  /\ inflight = {}
  /\ actionResults = <<>>
  /\ userMessages = << OtherRecord >>
  /\ navigatedTo = <<>>
  /\ lastOp = "getInitialState"
  /\ pinned = NoPinned
  /\ stamped = {}
  /\ roundTrip = NoRoundTrip

NextDerive ==
  \/ \E pu \in DerivePartialUpdates :
       BasicOnUpdate([valid |-> TRUE, partialUpdate |-> pu]) /\ BasicHistory
  \/ \E i \in 1..Len(props.clusters) :
       /\ BasicOnUpdate([valid |-> TRUE,
                         partialUpdate |-> handleClusterIdChange(props.clusters[i].id, props)])
       /\ BasicHistory
  \/ currentStep = "basic" /\ OnNext /\ MoveHistory
  \/ currentStep = "network" /\ OnBack /\ MoveHistory

SpecDerive == InitDerive /\ [][NextDerive]_vars

\* ------------------------------------------------------------------------
\* The wizard from its construction, with every catalog, up to the submission
\* ------------------------------------------------------------------------
\* the constructor ran getInitialState
ConstructHistory ==
  /\ Stamp
  /\ lastOp' = "getInitialState"
  /\ UNCHANGED << pinned, roundTrip >>

InitOpen ==
  /\ props \in OpenCatalogs
  /\ state = DEFAULT_STATE
  /\ currentStep = "basic"
  /\ show = TRUE
  /\ tokenSeq = 0
  /\ pc = "constructor"
  /\ pending = NoPending
  /\ inflight = {}
  /\ actionResults = <<>>
  /\ userMessages = << OtherRecord >>
  /\ navigatedTo = <<>>
  /\ lastOp = "none"
  /\ pinned = NoPinned
  /\ stamped = {}
  /\ roundTrip = NoRoundTrip

NextOpen ==
  \/ Constructor /\ ConstructHistory
  \/ \E pu \in FewPartialUpdates \cup { [templateId |-> "gone"] } :
       BasicOnUpdate([valid |-> TRUE, partialUpdate |-> pu]) /\ BasicHistory
  \/ \E up \in FewListUpdates.network :
       ListOnUpdate("network", up) /\ ListHistory("network", up)
  \/ \E up \in FewListUpdates.storage :
       ListOnUpdate("storage", up) /\ ListHistory("storage", up)
  \/ OnNext /\ MoveHistory
  \/ OnBack /\ MoveHistory
  \/ OnCreate /\ NoHistory
  \/ FlushSetState /\ NoHistory

SpecOpen == InitOpen /\ [][NextOpen]_vars

\* ------------------------------------------------------------------------
\* Claims
\* ------------------------------------------------------------------------
ListOf(s, stepName) == s.steps[stepName][ListName[stepName]]

\* C1: a list edited through handleListOnUpdate is left as the user edited it
\* by every later handleBasicOnUpdate that changes neither provisionSource nor
\* templateId and by the handleBasicOnExit that follows.
C1_EditedListSurvivesBasicExit ==
  \A stepName \in {"network", "storage"} :
    pinned[stepName] # <<>> => ListOf(state, stepName) = pinned[stepName][1]

\* C2: when handleBasicOnUpdate changes the value of provisionSource or of
\* templateId, both updated counters are 0 after the call.
C2_BasicChangeResetsCounters ==
  [][ (lastOp' = "handleBasicOnUpdate" /\ BasicChanged(state, state'))
        => (state'.steps.network.updated = 0 /\ state'.steps.storage.updated = 0) ]_vars

\* C3: a correlationId that is set never becomes another token; it only
\* returns to null, by the reset that also renews wizardKey.
C3_CorrelationIdImmutable ==
  [][ state.correlationId # Null
        => \/ state'.correlationId = state.correlationId
           \/ (state'.correlationId = Null /\ state'.wizardKey = state.wizardKey + 1) ]_vars

\* C4: while a correlationId is set and the session is not reset, steps.basic,
\* steps.network.nics and steps.storage.disks do not change.
C4_NoEditAfterStamp ==
  [][ (state.correlationId # Null /\ state'.wizardKey = state.wizardKey)
        => /\ state'.steps.basic = state.steps.basic
           /\ state'.steps.network.nics = state.steps.network.nics
           /\ state'.steps.storage.disks = state.steps.storage.disks ]_vars

\* C5: whenever a disk carries an underConstruction shadow copy, the storage
\* step is marked invalid.
C5_UnderConstructionInvalid ==
  AnyUnderConstruction(state.steps.storage.disks) => ~state.stepNavigation.storage.valid

CountersNotDecreased(s, s2) ==
  /\ s2.steps.network.updated >= s.steps.network.updated
  /\ s2.steps.storage.updated >= s.steps.storage.updated

\* C7: within one session neither updated counter decreases.
C7_CountersNeverDecrease ==
  [][ state'.wizardKey = state.wizardKey => CountersNotDecreased(state, state') ]_vars

\* C7, amended: handleBasicOnExit and handleListOnUpdate never decrease a
\* counter; handleBasicOnUpdate leaves both counters unchanged or sets both to 0.
C7_CountersDecreaseOnlyByReset ==
  [][ /\ lastOp' \in {"handleBasicOnExit", "handleListOnUpdate", "onMove"}
           => CountersNotDecreased(state, state')
      /\ lastOp' = "handleBasicOnUpdate"
           => \/ /\ state'.steps.network.updated = state.steps.network.updated
                 /\ state'.steps.storage.updated = state.steps.storage.updated
              \/ /\ state'.steps.network.updated = 0
                 /\ state'.steps.storage.updated = 0 ]_vars

\* C7 witness: handleBasicOnUpdate has set the counters of derived, edited
\* lists back to 0
C7_Witness ==
  /\ lastOp = "handleBasicOnUpdate"
  /\ state.steps.network.updated = 0
  /\ state.steps.storage.updated = 0
  /\ pinned.network # <<>>
  /\ state.steps.storage.disks # <<>>

DistinctIds(list) == \A i, j \in 1..Len(list) : list[i].id = list[j].id => i = j

\* C8: the ids of the nics are pairwise distinct, and so are the ids of the
\* disks.
C8_IdsDistinct ==
  DistinctIds(state.steps.network.nics) /\ DistinctIds(state.steps.storage.disks)

\* the step creates an item whose id is already in the list of stepName
CreatesKnownId(stepName) ==
  /\ roundTrip'.phase = "created"
  /\ roundTrip'.step = stepName
  /\ roundTrip'.item.id \in Ids(roundTrip'.before)

\* C8, amended: a list with pairwise distinct ids keeps them pairwise distinct
\* under every derivation and list mutation, except a create of an item whose
\* id is already in the list when handleListOnUpdate is called.
C8_IdsDistinctUnlessKnownIdCreated ==
  [][ \A stepName \in {"network", "storage"} :
        (DistinctIds(ListOf(state, stepName)) /\ ~CreatesKnownId(stepName))
          => DistinctIds(ListOf(state', stepName)) ]_vars

\* C8 witness: an item with a new id was created in a list that had items
C8_Witness ==
  /\ roundTrip.phase = "created"
  /\ roundTrip.before # <<>>
  /\ roundTrip.item.id \notin Ids(roundTrip.before)
  /\ ListOf(state, roundTrip.step) = Append(roundTrip.before, roundTrip.item)

RoundTripRestores ==
  /\ ListOf(state, roundTrip.step) = roundTrip.before
  /\ state.steps[roundTrip.step].updated = roundTrip.updated + 2

\* C9: a create of X followed by a remove of X.id restores the list and leaves
\* the updated counter 2 higher.
C9_CreateRemoveRestores == roundTrip.phase = "removed" => RoundTripRestores

\* C9, amended: the same, provided X.id is a non-empty id that no item of the
\* list had before the create.
C9_CreateRemoveRestoresNewId ==
  ( /\ roundTrip.phase = "removed"
    /\ TruthyId(roundTrip.item.id)
    /\ roundTrip.item.id \notin Ids(roundTrip.before) ) => RoundTripRestores

\* C9 witness: an item with a new id was created in a list that had items, and
\* removed again
C9_Witness ==
  /\ roundTrip.phase = "removed"
  /\ TruthyId(roundTrip.item.id)
  /\ roundTrip.item.id \notin Ids(roundTrip.before)
  /\ roundTrip.before # <<>>

\* C10: a handleBasicOnExit right after a handleBasicOnExit changes nothing.
C10_BasicOnExitIdempotent ==
  lastOp = "handleBasicOnExit" => handleBasicOnExit(state, props) = state

\* C10 witness: handleBasicOnExit has derived nics and disks from a template
C10_Witness ==
  /\ lastOp = "handleBasicOnExit"
  /\ state.steps.network.nics # <<>>
  /\ state.steps.storage.disks # <<>>
  /\ state.steps.network.updated = 1
  /\ state.steps.storage.updated = 1

\* the list handleBasicOnExit derives for the step from the template selected
\* in s: empty when there is no such template
DerivedList(s, p, stepName) ==
  LET templateId == Get(s.steps.basic, "templateId")
      DeriveDiskOf(disk) ==
        DeriveDisk(disk, p.templates[templateId], s.steps.basic.optimizedFor,
                   createStorageDomainList(p, Get(s.steps.basic, "dataCenterId")))
  IN IF ~HasTemplate(p, templateId) THEN <<>>
     ELSE IF stepName = "network" THEN MapSeq(DeriveNic, p.templates[templateId].nics)
     ELSE MapSeq(DeriveDiskOf, p.templates[templateId].disks)

ExitsBasic == currentStep = "basic" /\ currentStep' # "basic"

StorageValidIffResolved(s) ==
  s.stepNavigation.storage.valid <=> ~AnyUnderConstruction(s.steps.storage.disks)

\* C12: after every handleBasicOnExit, stepNavigation.storage.valid is true
\* exactly when no disk carries an underConstruction shadow copy.
C12_StorageValidAfterBasicExit ==
  [][ ExitsBasic => StorageValidIffResolved(state') ]_vars

\* C12, amended: a handleBasicOnExit that derives the disks (storage.updated is
\* 0 at the call) leaves stepNavigation.storage.valid true exactly when no
\* derived disk carries an underConstruction shadow copy; a call that keeps
\* the disks keeps stepNavigation.storage.valid as it was.
C12_StorageValidRecomputedOnDerive ==
  [][ ExitsBasic
        => IF state.steps.storage.updated = 0
           THEN StorageValidIffResolved(state')
           ELSE state'.stepNavigation.storage.valid = state.stepNavigation.storage.valid ]_vars

\* C12 witness: the disks were derived with a disk the user has to resolve,
\* and the storage step is invalid
C12_Witness ==
  /\ currentStep = "network"
  /\ state.steps.storage.updated = 1
  /\ AnyUnderConstruction(state.steps.storage.disks)
  /\ ~state.stepNavigation.storage.valid

\* the view the finished step computes in the current state
View == progress(state, actionResults, userMessages)

\* C13: the progress view reports inProgress = true whenever actionResults has
\* no entry for state.correlationId, whatever the token is, null included.
C13_InProgressWithoutResult ==
  state.correlationId \notin DOMAIN actionResults => View.inProgress

\* C13, amended: the view reports inProgress = true whenever the token is set
\* and actionResults has no entry for it; for the null token it reports
\* inProgress = false, the result undefined and the messages null.
C13_InProgressWithoutResultOfSetToken ==
  /\ (state.correlationId # Null /\ state.correlationId \notin DOMAIN actionResults)
        => View.inProgress
  /\ state.correlationId = Null
        => View = [inProgress |-> FALSE, result |-> Undefined, messages |-> << Null >>]

\* C13 witness: the finished step is shown while the create request is in flight
C13_Witness ==
  /\ currentStep = "finish"
  /\ state.correlationId \in inflight
  /\ state.correlationId \notin DOMAIN actionResults
  /\ View.inProgress

CorrelatesWithToken(record) == CorrelatesWith(record, state.correlationId)

\* C14: when actionResults has an entry for the token, the view has
\* inProgress = false, the result 'success' if the stored value is truthy and
\* 'error' if not, and as messages those of exactly the records whose
\* failedAction.meta.correlationId is the token, in their order.
C14_ViewOfResult ==
  (state.correlationId # Null /\ state.correlationId \in DOMAIN actionResults)
    => /\ View.inProgress = FALSE
       /\ View.result = "success" <=> actionResults[state.correlationId]
       /\ View.result = "error" <=> ~actionResults[state.correlationId]
       /\ LET expected == SelectSeq(userMessages, CorrelatesWithToken)
          IN View.messages = << [i \in 1..Len(expected) |-> expected[i].message] >>

\* C14 witness: the finished step shows a failed create request whose record
\* is stored next to the record of another failed request
C14_Witness ==
  /\ currentStep = "finish"
  /\ state.correlationId \in DOMAIN actionResults
  /\ ~actionResults[state.correlationId]
  /\ \E i \in 1..Len(userMessages) :
        /\ "failedAction" \in DOMAIN userMessages[i]
        /\ ~CorrelatesWithToken(userMessages[i])
  /\ View.messages = << << "vm not created: " \o ToString(state.correlationId) >> >>

\* the operations a payload carries, as handleListOnUpdate tests them: a remove
\* with a non-empty id, an update, a create
Carried(up) ==
  { k \in (DOMAIN up) \cap {"remove", "update", "create"} :
      k = "remove" => TruthyId(up.remove) }

OtherStep(stepName) == IF stepName = "network" THEN "storage" ELSE "network"

UnknownId(up, list) ==
  \/ DOMAIN up = {"remove"} /\ up.remove \notin Ids(list)
  \/ DOMAIN up = {"update"} /\ up.update.id \notin Ids(list)

\* C16: handleListOnUpdate with an update or a remove whose id matches no item
\* completes and leaves the items of the list, their fields and their order
\* unchanged.
C16_UnknownIdKeepsList ==
  \A stepName \in {"network", "storage"} :
    \A up \in ListUpdates[stepName] :
      UnknownId(up, ListOf(state, stepName))
        => ListOf(handleListOnUpdate(state, stepName, ListName[stepName], up), stepName)
             = ListOf(state, stepName)

\* C16 witness: one call of handleListOnUpdate has counted, and the nics are
\* still the derived ones: its id matched none of them
C16_Witness ==
  /\ lastOp = "handleListOnUpdate"
  /\ state.steps.network.updated = 2
  /\ pinned.network = << state.steps.network.nics >>
  /\ state.steps.network.nics = DerivedList(state, props, "network")
  /\ state.steps.network.nics # <<>>

\* the template selected in s
SelectedTemplate(s, p) == p.templates[Get(s.steps.basic, "templateId")]

\* handleBasicOnExit runs and derives the list of the step
Derives(stepName) ==
  lastOp' = "handleBasicOnExit" /\ state.steps[stepName].updated = 0

\* C17: the diskType of a derived disk is 'thin' if the template's type is
\* 'desktop' or optimizedFor is 'desktop'; otherwise 'thin' for a sparse
\* template disk and 'pre' for one that is not sparse.
C17_DiskTypeRule ==
  [][ (Derives("storage") /\ HasTemplate(props, Get(state.steps.basic, "templateId")))
        => LET template == SelectedTemplate(state, props)
               disks == state'.steps.storage.disks
           IN \A i \in 1..Len(template.disks) :
                /\ i \in 1..Len(disks)
                /\ disks[i].diskType =
                     IF template.type = "desktop" \/ state.steps.basic.optimizedFor = "desktop"
                     THEN "thin"
                     ELSE IF template.disks[i].sparse THEN "thin" ELSE "pre" ]_vars

\* C17 witness: with a server template and a vm not optimized for desktop, a
\* sparse disk was derived as 'thin' and a disk that is not sparse as 'pre'
C17_Witness ==
  /\ lastOp = "handleBasicOnExit"
  /\ state.steps.basic.optimizedFor # "desktop"
  /\ \E i, j \in 1..Len(state.steps.storage.disks) :
        /\ state.steps.storage.disks[i].diskType = "thin"
        /\ state.steps.storage.disks[j].diskType = "pre"

\* C18: the derived disks are one per template disk, in template order, each
\* from the template; canUserUseStorageDomain is true exactly when the storage
\* domain of the disk is in the list of the selected data center; a disk
\* carries an underConstruction shadow copy exactly when it is false, and the
\* shadow copy is the disk with storageDomainId '_'.
C18_DerivedDisks ==
  [][ (Derives("storage") /\ HasTemplate(props, Get(state.steps.basic, "templateId")))
        => LET template == SelectedTemplate(state, props)
               disks == state'.steps.storage.disks
               available == { sd.id : sd \in createStorageDomainList(
                                       props, Get(state.steps.basic, "dataCenterId")) }
           IN /\ Len(disks) = Len(template.disks)
              /\ \A i \in 1..Len(disks) :
                   LET d == disks[i]
                       plain == [k \in (DOMAIN d) \ {"underConstruction"} |-> d[k]]
                   IN /\ d.id = template.disks[i].attachmentId
                      /\ d.diskId = template.disks[i].id
                      /\ d.storageDomainId = template.disks[i].storageDomainId
                      /\ d.isFromTemplate = TRUE
                      /\ d.canUserUseStorageDomain <=> d.storageDomainId \in available
                      /\ HasUnderConstruction(d) <=> ~d.canUserUseStorageDomain
                      /\ HasUnderConstruction(d)
                           => d.underConstruction = [plain EXCEPT !.storageDomainId = "_"] ]_vars

\* C18 witness: two disks were derived, one on a storage domain of the data
\* center and one the user has to move
C18_Witness ==
  /\ lastOp = "handleBasicOnExit"
  /\ Len(state.steps.storage.disks) = 2
  /\ state.steps.storage.disks[1].canUserUseStorageDomain
  /\ ~HasUnderConstruction(state.steps.storage.disks[1])
  /\ HasUnderConstruction(state.steps.storage.disks[2])
  /\ state.steps.storage.disks[2].underConstruction.storageDomainId = "_"

\* C19: the derived nics are none when no template is selected; otherwise one
\* per template nic, in template order, with its id, name and interface, the
\* profile id of the template nic or the empty-profile id when it has none,
\* and isFromTemplate = true.
C19_DerivedNics ==
  [][ Derives("network")
        => LET nics == state'.steps.network.nics
           IN IF ~HasTemplate(props, Get(state.steps.basic, "templateId"))
              THEN nics = <<>>
              ELSE LET template == SelectedTemplate(state, props)
                   IN /\ Len(nics) = Len(template.nics)
                      /\ \A i \in 1..Len(nics) :
                           /\ nics[i].id = template.nics[i].id
                           /\ nics[i].name = template.nics[i].name
                           /\ nics[i].deviceType = template.nics[i].interface
                           /\ nics[i].vnicProfileId =
                                IF template.nics[i].vnicProfile = Undefined
                                THEN EMPTY_VNIC_PROFILE_ID
                                ELSE template.nics[i].vnicProfile
                           /\ nics[i].isFromTemplate = TRUE ]_vars

\* C19 witness: a nic with a profile and a nic without one were derived
C19_Witness ==
  /\ lastOp = "handleBasicOnExit"
  /\ Len(state.steps.network.nics) = 2
  /\ state.steps.network.nics[1].vnicProfileId = "p1"
  /\ state.steps.network.nics[2].vnicProfileId = EMPTY_VNIC_PROFILE_ID
  /\ state.steps.network.nics[2].deviceType = "e1000"

\* nothing is submitted, derived or edited, and the close dialog is hidden
FreshState(s) ==
  /\ s.correlationId = Null
  /\ s.steps.network.updated = 0
  /\ s.steps.storage.updated = 0
  /\ s.steps.network.nics = <<>>
  /\ s.steps.storage.disks = <<>>
  /\ ~s.wizardUpdated
  /\ ~s.showCloseWizardDialog

\* C20: the state the wizard is constructed with and the state after every
\* hideAndResetState (the wizard is hidden) has no token, both counters 0, no
\* nics and disks, wizardUpdated false and the close dialog hidden; every
\* reset raises wizardKey, and nothing lowers it.
C20_FreshOnOpenAndReset ==
  /\ FreshState(state)
  /\ [][ (show /\ ~show')
           => (FreshState(state') /\ state'.wizardKey > state.wizardKey) ]_vars
  /\ [][ (~show /\ show') => FreshState(state') ]_vars
  /\ [][ state'.wizardKey >= state.wizardKey ]_vars

\* C20 witness: after a submission the wizard was reset and is shown again
C20_Witness ==
  /\ show
  /\ state.wizardKey = 2
  /\ tokenSeq >= 1
  /\ FreshState(state)

\* C21: no operation of the wizard raises for its caller, whatever the
\* catalog: the constructor's getInitialState and every handler complete.
C21_NoOperationRaises == pc # "TypeError"

\* C22: a create request is dispatched only when the wizard advances from the
\* review step to the finished step; when the review step is left for an
\* earlier step, nothing is dispatched and correlationId stays null.
C22_CreateOnlyOnAdvance ==
  /\ [][ inflight' # inflight /\ inflight \subseteq inflight' => pending.step = "finish" ]_vars
  /\ [][ (currentStep = "review" /\ currentStep' \in {"basic", "network", "storage"})
           => state'.correlationId = Null ]_vars

StepsValid(s) ==
  /\ s.stepNavigation.basic.valid
  /\ s.stepNavigation.network.valid
  /\ s.stepNavigation.storage.valid

\* C23: whenever the wizard shows the review step, and whenever a create
\* request is dispatched, the basic, network and storage steps are valid and
\* no disk carries an underConstruction shadow copy.
C23_ReviewOnlyWhenValid ==
  (currentStep = "review" \/ pc = "onCreate")
    => (StepsValid(state) /\ ~AnyUnderConstruction(state.steps.storage.disks))

\* C24: a handleBasicOnUpdate that changes neither provisionSource nor
\* templateId leaves steps.network and steps.storage, their updated counters
\* included, unchanged.
C24_BasicUpdateKeepsLists ==
  [][ (lastOp' = "handleBasicOnUpdate" /\ ~BasicChanged(state, state'))
        => /\ state'.steps.network = state.steps.network
           /\ state'.steps.storage = state.steps.storage ]_vars

\* edits that were not submitted
UnsavedEdits(s) == s.wizardUpdated /\ s.correlationId = Null

\* C25: a close never discards unsubmitted edits without asking: the dialog
\* is shown only over unsubmitted edits and with the state otherwise
\* unchanged, declining only hides the dialog, and the state is reset only
\* from the dialog, or when nothing was edited, or when a token is set; a
\* close without unsubmitted edits hides the wizard at once.
C25_CloseAsksBeforeDiscarding ==
  /\ [][ (~state.showCloseWizardDialog /\ state'.showCloseWizardDialog)
           => /\ UnsavedEdits(state)
              /\ state' = [state EXCEPT !.showCloseWizardDialog = TRUE]
              /\ show' ]_vars
  /\ [][ (state.showCloseWizardDialog /\ state' # state
            /\ state'.wizardKey = state.wizardKey)
           => state' = [state EXCEPT !.showCloseWizardDialog = FALSE] ]_vars
  /\ [][ state'.wizardKey # state.wizardKey
           => /\ state.showCloseWizardDialog \/ ~UnsavedEdits(state)
              /\ ~show' ]_vars

\* C25 witness: the close was asked over derived nics and an edited basic
\* step, the dialog is shown and the step data is kept
C25_Witness ==
  /\ state.showCloseWizardDialog
  /\ show
  /\ state.steps.network.nics # <<>>
  /\ Get(state.steps.basic, "name") = "vm"

====
